---- MODULE Spec2Model ----
(***************************************************************************)
(* InferenceSessionWrap of js/node/src/inference_session_wrap.cc: the      *)
(* session object of the Node.js binding.  One action per host-callable    *)
(* method (loadModel, inputMetadata/outputMetadata, run, dispose,          *)
(* endProfiling); every action is the whole handler, from its state checks *)
(* to its return or throw.  The engine (Ort::Session, Ort::IoBinding) and  *)
(* the helper parsers live outside the file and are modelled by what the   *)
(* handler observes of them; where the engine may fail, the failure is an  *)
(* input of the action.                                                    *)
(***************************************************************************)
EXTENDS Integers, Sequences, FiniteSets, TLC

\* ------------------------------------------------------------------ bounds
\* How many loadModel calls may fail after passing the state checks (each
\* such call may leave cached names behind, so the count must be capped).
MaxFailedLoads == 1

\* ------------------------------------------------------- fixed messages
MsgAlreadyLoaded == "Model already loaded. Cannot load model multiple times."
MsgDisposed == "Session already disposed."
MsgNotInitialized == "Session is not initialized."
MsgExpectModel == "Expect argument: model file path or buffer."
MsgInvalidLoadArgs == "Invalid argument: args has to be either (modelPath, options) or (buffer, byteOffset, byteLength, options)."
MsgExpectFeedFetch == "Expect argument: inputs(feed) and outputs(fetch)."
MsgFeedFetchObjects == "Expect inputs(feed) and outputs(fetch) to be objects."
MsgRunOptionsObject == "'runOptions' must be an object."
MsgPreferredSize == "Preferred output locations must have the same size as output names."
MsgOutputCount == "Output count mismatch."

\* Messages of failures raised outside this file (helpers and engine).
MsgBadSessionOptions == "Invalid argument: sessionOptions."
MsgBadPreferredLocation == "Invalid argument: preferredOutputLocation."
MsgBadTensor == "Invalid argument: tensor."
MsgBadRunOptions == "Invalid argument: runOptions."
MsgEngineRun == "engine: Run failed"
MsgEngineEndProfiling == "engine: EndProfiling failed"

\* ------------------------------------------------------------- the models
\* The models a session may be created from: what Ort::Session reports for
\* them (names and type infos, in declaration order).
\* A tensor type info: element type code, shape (-1 for a free dimension)
\* and the symbolic name of each dimension ("" for a fixed one).
TensorType(code, shape, symbolicDimensions) ==
  [onnxType |-> "ONNX_TYPE_TENSOR", elementType |-> code, shape |-> shape,
   symbolicDimensions |-> symbolicDimensions]

\* A type info that is no tensor (a sequence, a map).
OtherType(onnxType) == [onnxType |-> onnxType]

ModelSmall ==
  [inputs  |-> << [name |-> "x1", type |-> TensorType(1, <<2>>, <<"">>)] >>,
   outputs |-> << [name |-> "y1", type |-> TensorType(1, <<2>>, <<"">>)] >>]

ModelLarge ==
  [inputs  |-> << [name |-> "x1", type |-> TensorType(1, <<2>>, <<"">>)],
                  [name |-> "x2", type |-> TensorType(7, <<-1, 3>>, <<"batch", "">>)] >>,
   outputs |-> << [name |-> "y1", type |-> TensorType(1, <<2>>, <<"">>)],
                  [name |-> "y2", type |-> TensorType(6, <<-1>>, <<"batch">>)] >>]

\* A model whose input is a sequence and whose output is a map.
ModelSequence ==
  [inputs  |-> << [name |-> "s1", type |-> OtherType("ONNX_TYPE_SEQUENCE")] >>,
   outputs |-> << [name |-> "m1", type |-> OtherType("ONNX_TYPE_MAP")] >>]

Models == {ModelSmall, ModelLarge}

\* A key that names no input and no output of any model.
Stranger == "zz"

\* --------------------------------------------------------------- helpers
Range(s) == {s[i] : i \in DOMAIN s}

\* The host object obj with obj[k] set to v (Napi::Object::Set).
ObjectSet(obj, k, v) ==
  [x \in (DOMAIN obj) \cup {k} |-> IF x = k THEN v ELSE obj[x]]

EmptyObject == [x \in {} |-> 0]

\* ------------------------------------------------------------------ state
VARIABLES
  initialized_,               \* bool
  disposed_,                  \* bool
  session_,                   \* unique_ptr<Ort::Session>: <<>> or <<model>>
  inputNames_,                \* vector<string>
  inputTypes_,                \* vector<Ort::TypeInfo>
  outputNames_,               \* vector<string>
  outputTypes_,               \* vector<Ort::TypeInfo>
  preferredOutputLocations_,  \* vector<int>: "CPU" / "GPU_BUFFER"
  ioBinding_,                 \* unique_ptr<Ort::IoBinding>: <<>> or <<binding>>
  failedLoads,                \* loadModel calls that failed past the state checks
  result,                     \* how the last call ended
  engineRun,                  \* what the engine's Run saw in the last call
  released                    \* what the last call released or marked, in order

fields == <<initialized_, disposed_, session_, inputNames_, inputTypes_,
            outputNames_, outputTypes_, preferredOutputLocations_, ioBinding_>>

vars == <<initialized_, disposed_, session_, inputNames_, inputTypes_,
          outputNames_, outputTypes_, preferredOutputLocations_, ioBinding_,
          failedLoads, result, engineRun, released>>

\* How a call ends: status "ok" (returned), "Error" / "TypeError" (a host
\* exception thrown), "uncaught" (a C++ exception left the handler).
Outcome(method, status, message, value) ==
  [method |-> method, status |-> status, message |-> message, value |-> value]

\* supplied/requested: inputNames_cstr and outputNames_cstr of the call;
\* inputs/outputs: the inputs and outputs the engine's Run was given.
NoEngineRun ==
  [called |-> FALSE, ok |-> FALSE, supplied |-> <<>>, requested |-> <<>>,
   inputs |-> <<>>, outputs |-> <<>>]

\* The state after the constructor.
Init ==
  /\ initialized_ = FALSE
  /\ disposed_ = FALSE
  /\ session_ = <<>>
  /\ inputNames_ = <<>>
  /\ inputTypes_ = <<>>
  /\ outputNames_ = <<>>
  /\ outputTypes_ = <<>>
  /\ preferredOutputLocations_ = <<>>
  /\ ioBinding_ = <<>>
  /\ failedLoads = 0
  /\ result = Outcome("constructor", "ok", "", <<>>)
  /\ engineRun = NoEngineRun
  /\ released = <<>>


\* -------------------------------------------------------------- loadModel
\* The arguments of a loadModel call.  kind: "none" (no argument), "path"
\* (modelPath, options), "buffer" (buffer, byteOffset, byteLength, options),
\* "invalid" (any other arity or types).  optionsOk: whether the options
\* record parses as session options.  pref: the preferredOutputLocation
\* entry of the options record; a sub-record lists its entries in the order
\* the host enumerates them.
PrefAbsent == [kind |-> "absent", loc |-> "", entries |-> <<>>]
PrefString(s) == [kind |-> "string", loc |-> s, entries |-> <<>>]
PrefRecord(entries) == [kind |-> "record", loc |-> "", entries |-> entries]

PrefEntry(key, loc) == [key |-> key, loc |-> loc]

Prefs ==
  {PrefAbsent, PrefString("cpu"), PrefString("gpu-buffer"), PrefString("bogus"),
   PrefRecord(<<PrefEntry("y1", "gpu-buffer")>>),
   PrefRecord(<<PrefEntry("y2", "gpu-buffer")>>),
   PrefRecord(<<PrefEntry("y1", "bogus")>>),
   PrefRecord(<<PrefEntry(Stranger, "cpu")>>)}

LoadArgs ==
  {[kind |-> k, optionsOk |-> TRUE, model |-> ModelSmall, pref |-> PrefAbsent] :
      k \in {"none", "invalid"}}
  \cup {[kind |-> "path", optionsOk |-> FALSE, model |-> ModelSmall, pref |-> PrefAbsent]}
  \cup {[kind |-> "buffer", optionsOk |-> TRUE, model |-> m, pref |-> PrefAbsent] :
          m \in Models}
  \cup {[kind |-> "path", optionsOk |-> TRUE, model |-> m, pref |-> p] :
          m \in Models, p \in Prefs}
  \cup {[kind |-> "path", optionsOk |-> TRUE, model |-> ModelSequence,
          pref |-> PrefAbsent]}

\* Where the engine fails during a loadModel call, if it does: creating the
\* session, reading the input or output count, reading the name or the type
\* info of input/output number `at`, or constructing the I/O binding.
NoFault == [step |-> "none", at |-> 0]

LoadFaults ==
  {NoFault,
   [step |-> "Session", at |-> 0],
   [step |-> "GetInputCount", at |-> 0],
   [step |-> "GetInputNameAllocated", at |-> 2],
   [step |-> "GetInputTypeInfo", at |-> 1],
   [step |-> "GetOutputCount", at |-> 0],
   [step |-> "GetOutputNameAllocated", at |-> 1],
   [step |-> "GetOutputTypeInfo", at |-> 2],
   [step |-> "IoBinding", at |-> 0]}

EngineMessage(step) == "engine: " \o step \o " failed"

\* The loadModel calls tried: every argument form with an engine that does
\* not fail, and each engine failure with a call that reaches it.
LoadCall(args, fault) == [args |-> args, fault |-> fault]

LoadCalls ==
  {LoadCall(a, NoFault) : a \in LoadArgs}
  \cup {LoadCall([kind |-> "path", optionsOk |-> TRUE, model |-> m, pref |-> PrefAbsent], f) :
          m \in Models, f \in LoadFaults}
  \cup {LoadCall([kind |-> "path", optionsOk |-> TRUE, model |-> m,
                  pref |-> PrefString("gpu-buffer")],
                 [step |-> "IoBinding", at |-> 0]) : m \in Models}

\* (variant: the already-loaded check left out)
LoadModelCheck_NoLoadedCheck ==
  IF disposed_ THEN MsgDisposed ELSE ""

\* The state checks of loadModel.
LoadModelCheck ==
  IF initialized_ THEN MsgAlreadyLoaded
  ELSE IF disposed_ THEN MsgDisposed
  ELSE ""

\* info.Length() of a loadModel call.
ArgsLength(args) ==
  CASE args.kind = "none" -> 0
    [] args.kind = "path" -> 2
    [] args.kind = "buffer" -> 4
    [] OTHER -> 1

\* The two loops that cache names and type infos: entry i of decl is read
\* (name, then type info) and appended to names/types; the engine may throw
\* on either read.
RECURSIVE CacheNames(_, _, _, _, _, _, _)
CacheNames(decl, i, names, types, fault, nameStep, typeStep) ==
  IF i > Len(decl) THEN [threw |-> FALSE, names |-> names, types |-> types]
  ELSE IF fault = [step |-> nameStep, at |-> i]
    THEN [threw |-> TRUE, names |-> names, types |-> types]
  ELSE IF fault = [step |-> typeStep, at |-> i]
    THEN [threw |-> TRUE, names |-> Append(names, decl[i].name), types |-> types]
  ELSE CacheNames(decl, i + 1, Append(names, decl[i].name),
                  Append(types, decl[i].type), fault, nameStep, typeStep)

\* A data-location string of the options record.
DecodeLocation(s) ==
  IF s = "cpu" THEN "CPU" ELSE IF s = "gpu-buffer" THEN "GPU_BUFFER" ELSE "NONE"

\* std::vector::resize(n, v): cut to n entries, or filled up to n with v.
Resize(vec, n, v) == [i \in 1..n |-> IF i <= Len(vec) THEN vec[i] ELSE v]

\* The first position of name in names; 0 when it is none of them.
Find(names, name) ==
  IF name \notin Range(names) THEN 0
  ELSE CHOOSE i \in 1..Len(names) :
         names[i] = name /\ \A j \in 1..(i - 1) : names[j] # name

\* The entries of a sub-record, one after the other: each stores its location
\* at the position of the output it names; a key that is no output name or
\* an unrecognised location fails and leaves what was stored so far.
RECURSIVE SetLocations(_, _, _, _)
SetLocations(entries, k, outputNames, locations) ==
  IF k > Len(entries) THEN [ok |-> TRUE, locations |-> locations]
  ELSE IF \/ Find(outputNames, entries[k].key) = 0
          \/ DecodeLocation(entries[k].loc) = "NONE"
    THEN [ok |-> FALSE, locations |-> locations]
  ELSE SetLocations(entries, k + 1, outputNames,
                    [locations EXCEPT ![Find(outputNames, entries[k].key)] =
                                         DecodeLocation(entries[k].loc)])

\* ParsePreferredOutputLocations fills the vector it is handed, in place:
\* nothing when the entry is absent; a string gives every output that
\* location; a sub-record keyed by output name gives each named output its
\* location (the others CPU).  locations is the vector as the call leaves
\* it, also when it fails.
ParsePreferredOutputLocations(pref, outputNames, preferredOutputLocations) ==
  CASE pref.kind = "absent" -> [ok |-> TRUE, locations |-> preferredOutputLocations]
    [] pref.kind = "string" ->
         IF DecodeLocation(pref.loc) = "NONE"
         THEN [ok |-> FALSE, locations |-> preferredOutputLocations]
         ELSE [ok |-> TRUE,
               locations |-> Resize(preferredOutputLocations, Len(outputNames),
                                    DecodeLocation(pref.loc))]
    [] OTHER ->
         SetLocations(pref.entries, 1, outputNames,
                      Resize(preferredOutputLocations, Len(outputNames), "CPU"))

\* A freshly constructed Ort::IoBinding: nothing bound.
NewIoBinding == [inputs |-> <<>>, outputs |-> <<>>]

\* What reset / assignment of an owning pointer releases: the handle held
\* before, if there was one.
Released(handle, name) == IF handle # <<>> THEN <<name>> ELSE <<>>

\* The fields as a loadModel call leaves them, with how it ended and what it
\* released.
LoadEnd(status, message, s, inN, inT, outN, outT, pol, iob, log) ==
  [status |-> status, message |-> message, session |-> s,
   inputNames |-> inN, inputTypes |-> inT, outputNames |-> outN,
   outputTypes |-> outT, preferred |-> pol, ioBinding |-> iob, log |-> log]

\* The try block of loadModel, statement by statement, up to its first throw.
LoadModelTry(args, fault) ==
  LET unchanged(status, message) ==
        LoadEnd(status, message, session_, inputNames_, inputTypes_,
                outputNames_, outputTypes_, preferredOutputLocations_, ioBinding_,
                <<>>)
  IN
  IF args.kind \notin {"path", "buffer"} THEN unchanged("TypeError", MsgInvalidLoadArgs)
  ELSE IF ~args.optionsOk THEN unchanged("TypeError", MsgBadSessionOptions)
  ELSE IF fault.step = "Session" THEN unchanged("Error", EngineMessage(fault.step))
  ELSE
    LET s == <<args.model>>
        log == Released(session_, "session_")
    IN
    IF fault.step = "GetInputCount"
    THEN LoadEnd("Error", EngineMessage(fault.step), s, inputNames_, inputTypes_,
                 outputNames_, outputTypes_, preferredOutputLocations_, ioBinding_, log)
    ELSE
    LET ins == CacheNames(args.model.inputs, 1, inputNames_, inputTypes_, fault,
                          "GetInputNameAllocated", "GetInputTypeInfo")
    IN
    IF ins.threw
    THEN LoadEnd("Error", EngineMessage(fault.step), s, ins.names, ins.types,
                 outputNames_, outputTypes_, preferredOutputLocations_, ioBinding_, log)
    ELSE IF fault.step = "GetOutputCount"
    THEN LoadEnd("Error", EngineMessage(fault.step), s, ins.names, ins.types,
                 outputNames_, outputTypes_, preferredOutputLocations_, ioBinding_, log)
    ELSE
      LET outs == CacheNames(args.model.outputs, 1, outputNames_, outputTypes_, fault,
                             "GetOutputNameAllocated", "GetOutputTypeInfo")
      IN
      IF outs.threw
      THEN LoadEnd("Error", EngineMessage(fault.step), s, ins.names, ins.types,
                   outs.names, outs.types, preferredOutputLocations_, ioBinding_, log)
      ELSE
        LET pol == ParsePreferredOutputLocations(args.pref, outs.names,
                                                 preferredOutputLocations_)
        IN
        IF ~pol.ok
        THEN LoadEnd("TypeError", MsgBadPreferredLocation, s, ins.names, ins.types,
                     outs.names, outs.types, pol.locations, ioBinding_, log)
        ELSE IF Len(pol.locations) = 0
        THEN LoadEnd("ok", "", s, ins.names, ins.types, outs.names, outs.types,
                     pol.locations, ioBinding_, log)
        ELSE IF fault.step = "IoBinding"
        THEN LoadEnd("Error", EngineMessage(fault.step), s, ins.names, ins.types,
                     outs.names, outs.types, pol.locations, ioBinding_, log)
        ELSE LoadEnd("ok", "", s, ins.names, ins.types, outs.names, outs.types,
                     pol.locations, <<NewIoBinding>>,
                     log \o Released(ioBinding_, "ioBinding_"))

\* (variant: the flag set on every exit of the try block)
LoadModelInitialized_Always(status) == TRUE

\* initialized_ after the try block: line 132 is reached only without a throw.
LoadModelInitialized(status) == IF status = "ok" THEN TRUE ELSE initialized_

LoadModelCall(args, fault) ==
  IF LoadModelCheck # ""
  THEN /\ result' = Outcome("loadModel", "Error", LoadModelCheck, <<>>)
       /\ engineRun' = NoEngineRun
       /\ released' = <<>>
       /\ UNCHANGED <<fields, failedLoads>>
  ELSE IF ArgsLength(args) = 0
  THEN /\ result' = Outcome("loadModel", "TypeError", MsgExpectModel, <<>>)
       /\ engineRun' = NoEngineRun
       /\ released' = <<>>
       /\ UNCHANGED <<fields, failedLoads>>
  ELSE
    \E end \in {LoadModelTry(args, fault)} :
    /\ session_' = end.session
    /\ inputNames_' = end.inputNames
    /\ inputTypes_' = end.inputTypes
    /\ outputNames_' = end.outputNames
    /\ outputTypes_' = end.outputTypes
    /\ preferredOutputLocations_' = end.preferred
    /\ ioBinding_' = end.ioBinding
    /\ initialized_' = LoadModelInitialized(end.status)
    /\ UNCHANGED disposed_
    /\ result' = Outcome("loadModel", end.status, end.message, <<>>)
    /\ engineRun' = NoEngineRun
    /\ released' = end.log
    \* the cap on failed calls that left something behind
    /\ failedLoads' = IF end.status # "ok" /\ fields' # fields
                      THEN failedLoads + 1 ELSE failedLoads
    /\ failedLoads' <= MaxFailedLoads

\* A call the state checks reject reads neither its arguments nor the engine,
\* so one representative call stands for all of them.
LoadModel ==
  IF LoadModelCheck # ""
  THEN LoadModelCall([kind |-> "path", optionsOk |-> TRUE, model |-> ModelSmall,
                      pref |-> PrefAbsent], NoFault)
  ELSE \E call \in LoadCalls : LoadModelCall(call.args, call.fault)

\* ------------------------------------------- inputMetadata, outputMetadata
\* The state checks shared by the accessors, run, dispose and endProfiling.
GetMetadataCheck ==
  IF ~initialized_ THEN MsgNotInitialized
  ELSE IF disposed_ THEN MsgDisposed
  ELSE ""

\* The record built for entry i of the cached type infos.
MetadataEntry(names, types, i) ==
  IF types[i].onnxType = "ONNX_TYPE_TENSOR"
  THEN [name |-> names[i], isTensor |-> TRUE, type |-> types[i].elementType,
        symbolicDimensions |-> types[i].symbolicDimensions,
        shape |-> types[i].shape]
  ELSE [name |-> names[i], isTensor |-> FALSE]

\* The array an accessor returns: one record per cached type info.
MetadataArray(isInput) ==
  LET names == IF isInput THEN inputNames_ ELSE outputNames_
      types == IF isInput THEN inputTypes_ ELSE outputTypes_
  IN [i \in 1..Len(types) |-> MetadataEntry(names, types, i)]

GetMetadataCall(isInput) ==
  LET method == IF isInput THEN "inputMetadata" ELSE "outputMetadata" IN
  /\ result' = IF GetMetadataCheck # ""
               THEN Outcome(method, "Error", GetMetadataCheck, <<>>)
               ELSE Outcome(method, "ok", "", MetadataArray(isInput))
  /\ engineRun' = NoEngineRun
  /\ released' = <<>>
  /\ UNCHANGED <<fields, failedLoads>>

GetMetadata == \E isInput \in BOOLEAN : GetMetadataCall(isInput)

\* ---------------------------------------------------------------- dispose
\* (variant: the not-initialized check left out)
DisposeCheck_NoInitCheck ==
  IF disposed_ THEN MsgDisposed ELSE ""

\* (variant: the disposed check left out)
DisposeCheck_NoDisposedCheck ==
  IF ~initialized_ THEN MsgNotInitialized ELSE ""

DisposeCheck ==
  IF ~initialized_ THEN MsgNotInitialized
  ELSE IF disposed_ THEN MsgDisposed
  ELSE ""

\* The statements of dispose after its checks, in program order.
DisposeSteps_SessionFirst == <<"session_", "ioBinding_", "disposed_">>

DisposeSteps == <<"ioBinding_", "session_", "disposed_">>

\* One statement of dispose: reset(nullptr) releases the handle if one is
\* held; the last statement sets the flag.  log lists what was released or
\* marked, in order.
DisposeStep(st, step) ==
  CASE step = "ioBinding_" ->
         [st EXCEPT !.ioBinding = <<>>,
                    !.log = IF st.ioBinding # <<>> THEN Append(@, step) ELSE @]
    [] step = "session_" ->
         [st EXCEPT !.session = <<>>,
                    !.log = IF st.session # <<>> THEN Append(@, step) ELSE @]
    [] OTHER ->
         [st EXCEPT !.disposed = TRUE, !.log = Append(@, step)]

RECURSIVE DisposeBody(_, _, _)
DisposeBody(st, steps, i) ==
  IF i > Len(steps) THEN st
  ELSE DisposeBody(DisposeStep(st, steps[i]), steps, i + 1)

Dispose ==
  /\ engineRun' = NoEngineRun
  /\ UNCHANGED failedLoads
  /\ IF DisposeCheck # ""
     THEN /\ result' = Outcome("dispose", "Error", DisposeCheck, <<>>)
          /\ released' = <<>>
          /\ UNCHANGED fields
     ELSE \E end \in {DisposeBody([ioBinding |-> ioBinding_, session |-> session_,
                                   disposed |-> disposed_, log |-> <<>>],
                                  DisposeSteps, 1)} :
          /\ ioBinding_' = end.ioBinding
          /\ session_' = end.session
          /\ disposed_' = end.disposed
          /\ released' = end.log
          /\ result' = Outcome("dispose", "ok", "", <<>>)
          /\ UNCHANGED <<initialized_, inputNames_, inputTypes_, outputNames_,
                         outputTypes_, preferredOutputLocations_>>

\* ----------------------------------------------------------- endProfiling
EndProfilingCheck ==
  IF ~initialized_ THEN MsgNotInitialized
  ELSE IF disposed_ THEN MsgDisposed
  ELSE ""

\* The handler has no try block: an engine exception leaves it as it is.
EndProfilingCall(engineOk) ==
  /\ engineRun' = NoEngineRun
  /\ released' = <<>>
  /\ UNCHANGED <<fields, failedLoads>>
  /\ result' =
       IF EndProfilingCheck # ""
       THEN Outcome("endProfiling", "Error", EndProfilingCheck, <<>>)
       ELSE IF engineOk
       THEN Outcome("endProfiling", "ok", "", "profile.json")
       ELSE Outcome("endProfiling", "uncaught", MsgEngineEndProfiling, <<>>)

EndProfiling == \E engineOk \in BOOLEAN : EndProfilingCall(engineOk)

\* -------------------------------------------------------------------- run
\* The arguments of a run call.  argc: info.Length().  objects: whether feed
\* and fetch are both objects.  options: "absent", "ok", "invalid" (an object
\* that does not parse) or "notobject".  feed maps a key to "tensor" or to
\* "bad" (a value that does not marshal); fetch maps a key to "null",
\* "tensor" or "bad".
Tensors(keys) == [k \in keys |-> "tensor"]
Nulls(keys) == [k \in keys |-> "null"]

Feeds ==
  {Tensors({}), Tensors({"x1"}), Tensors({"x2"}), Tensors({"x1", "x2"}),
   Tensors({"x1", Stranger})}

Fetches ==
  {Nulls({}), Nulls({"y1"}), Nulls({"y2"}), Nulls({"y1", "y2"}),
   Nulls({"y1", Stranger}), Tensors({"y1"})}

RunCall3(feed, fetch, options) ==
  [argc |-> IF options = "absent" THEN 2 ELSE 3, objects |-> TRUE,
   options |-> options, feed |-> feed, fetch |-> fetch]

RunArgs ==
  {RunCall3(fd, Nulls({"y1", "y2"}), "absent") : fd \in Feeds}
  \cup {RunCall3(Tensors({"x1", "x2"}), ft, "absent") : ft \in Fetches}
  \cup {RunCall3(Tensors({"x1"}), Nulls({"y1"}), o) : o \in {"ok", "invalid", "notobject"}}
  \cup {RunCall3([k \in {"x1", "x2"} |-> IF k = "x2" THEN "bad" ELSE "tensor"],
                 Nulls({"y1"}), "absent"),
        RunCall3(Tensors({"x1"}),
                 [k \in {"y1", "y2"} |-> IF k = "y2" THEN "bad" ELSE "null"], "absent"),
        [argc |-> 1, objects |-> TRUE, options |-> "absent",
         feed |-> Tensors({"x1"}), fetch |-> Nulls({})],
        [argc |-> 2, objects |-> FALSE, options |-> "absent",
         feed |-> Tensors({}), fetch |-> Nulls({})]}

\* Where the engine fails during a run call, if it does: creating one of the
\* two memory infos, constructing the run options, binding input or output
\* number `at`, running, or reading the bound output values.
RunFaults ==
  {NoFault,
   [step |-> "MemoryInfo::CreateCpu", at |-> 0],
   [step |-> "MemoryInfo", at |-> 0],
   [step |-> "RunOptions", at |-> 0],
   [step |-> "BindInput", at |-> 2],
   [step |-> "BindOutput", at |-> 2],
   [step |-> "Run", at |-> 0],
   [step |-> "GetOutputValues", at |-> 0]}

\* The run calls tried: every argument form with an engine that does not
\* fail, and each engine failure with a call that reaches it.
RunCalls ==
  {[args |-> a, fault |-> NoFault] : a \in RunArgs}
  \cup {[args |-> RunCall3(Tensors({"x1", "x2"}), Nulls({"y1", "y2"}), "ok"),
          fault |-> f] : f \in RunFaults}

RunCheck ==
  IF ~initialized_ THEN MsgNotInitialized
  ELSE IF disposed_ THEN MsgDisposed
  ELSE ""

\* The argument checks of run; "" when they pass.
RunArgsCheck(args) ==
  IF args.argc < 2 THEN MsgExpectFeedFetch
  ELSE IF ~args.objects THEN MsgFeedFetchObjects
  ELSE IF args.argc > 2 /\ args.options = "notobject" THEN MsgRunOptionsObject
  ELSE ""

\* The memory infos run creates.
cpuMemoryInfo == "Cpu"
gpuBufferMemoryInfo == "WebGPU_Buffer"

\* The names of `names`, in order, that `record` has as keys: the loops that
\* fill inputNames_cstr and outputNames_cstr.
RECURSIVE NamesPresent(_, _, _)
NamesPresent(names, record, i) ==
  IF i > Len(names) THEN <<>>
  ELSE IF names[i] \in DOMAIN record
    THEN <<names[i]>> \o NamesPresent(names, record, i + 1)
    ELSE NamesPresent(names, record, i + 1)

\* Whether marshalling throws for some entry the loops read.
MarshalThrows(names, record) ==
  \E i \in 1..Len(names) : names[i] \in DOMAIN record /\ record[names[i]] = "bad"

\* The host tensor made of a native value.
OrtValueToNapiValue(v) ==
  [dataLocation |-> IF v.memory = gpuBufferMemoryInfo THEN "gpu-buffer" ELSE "cpu",
   data |-> v.data]

\* The result record: entry i of values is stored under outputNames_[i].
RECURSIVE RunResult(_, _, _, _)
RunResult(acc, values, i, outputIndex) ==
  IF i > outputIndex THEN acc
  ELSE RunResult(ObjectSet(acc, outputNames_[i], OrtValueToNapiValue(values[i])),
                 values, i + 1, outputIndex)

\* Ort::IoBinding::BindInput / BindOutput: a name already bound is rebound in
\* place, a new name is appended.
BindInput(b, name) ==
  IF name \in Range(b.inputs) THEN b
  ELSE [b EXCEPT !.inputs = Append(@, name)]

BindOutput(b, name, memory) ==
  IF \E j \in 1..Len(b.outputs) : b.outputs[j].name = name
  THEN [b EXCEPT !.outputs = [j \in 1..Len(@) |->
                                IF @[j].name = name
                                THEN [name |-> name, memory |-> memory] ELSE @[j]]]
  ELSE [b EXCEPT !.outputs = Append(@, [name |-> name, memory |-> memory])]

\* The loop that binds the inputs, up to the first BindInput that throws.
RECURSIVE BindInputs(_, _, _, _)
BindInputs(b, names, i, fault) ==
  IF i > Len(names) THEN [threw |-> FALSE, binding |-> b]
  ELSE IF fault = [step |-> "BindInput", at |-> i]
    THEN [threw |-> TRUE, binding |-> b]
  ELSE BindInputs(BindInput(b, names[i]), names, i + 1, fault)

\* The memory info output i is bound to.
OutputMemory(i) ==
  IF preferredOutputLocations_[i] = "GPU_BUFFER" THEN gpuBufferMemoryInfo
  ELSE cpuMemoryInfo

\* The loop that binds the outputs, up to the first BindOutput that throws.
RECURSIVE BindOutputs(_, _, _, _)
BindOutputs(b, names, i, fault) ==
  IF i > Len(names) THEN [threw |-> FALSE, binding |-> b]
  ELSE IF fault = [step |-> "BindOutput", at |-> i]
    THEN [threw |-> TRUE, binding |-> b]
  ELSE BindOutputs(BindOutput(b, names[i], OutputMemory(i)), names, i + 1, fault)

\* What the engine's Run produces for the output named `name` in memory
\* `memory`.
EngineValue(name, memory) == [data |-> name, memory |-> memory]

\* The engine's Run call as the engine sees it.
EngineRunSeen(ok, supplied, requested, inputs, outputs) ==
  [called |-> TRUE, ok |-> ok, supplied |-> supplied, requested |-> requested,
   inputs |-> inputs, outputs |-> outputs]

\* The direct path: Run with parallel arrays; the values come back in the
\* order of outputNames_cstr, engine-allocated in CPU memory.
RunDirect(inputNames_cstr, outputNames_cstr, fault) ==
  LET outputIndex == Len(outputNames_cstr)
      outputValues == [i \in 1..outputIndex |->
                         EngineValue(outputNames_cstr[i], cpuMemoryInfo)]
      seen == EngineRunSeen(fault.step # "Run", inputNames_cstr, outputNames_cstr,
                            inputNames_cstr,
                            [i \in 1..outputIndex |->
                               [name |-> outputNames_cstr[i], memory |-> cpuMemoryInfo]])
  IN
  IF fault.step = "Run"
  THEN [status |-> "Error", message |-> MsgEngineRun, value |-> <<>>,
        ioBinding |-> ioBinding_, engine |-> seen]
  ELSE [status |-> "ok", message |-> "",
        value |-> RunResult(EmptyObject, outputValues, 1, outputIndex),
        ioBinding |-> ioBinding_, engine |-> seen]

\* The I/O-binding path after its size check and its two binding loops.
RunBoundEngine(inputNames_cstr, outputNames_cstr, bound, fault) ==
  LET outputIndex == Len(outputNames_cstr)
      seen == EngineRunSeen(fault.step # "Run", inputNames_cstr, outputNames_cstr,
                            bound.inputs, bound.outputs)
      outputs == [j \in 1..Len(bound.outputs) |->
                    EngineValue(bound.outputs[j].name, bound.outputs[j].memory)]
  IN
  IF fault.step = "Run"
  THEN [status |-> "Error", message |-> MsgEngineRun, value |-> <<>>,
        ioBinding |-> <<bound>>, engine |-> seen]
  ELSE IF fault.step = "GetOutputValues"
  THEN [status |-> "Error", message |-> EngineMessage(fault.step), value |-> <<>>,
        ioBinding |-> <<bound>>, engine |-> seen]
  ELSE IF Len(outputs) # outputIndex
  THEN [status |-> "Error", message |-> MsgOutputCount, value |-> <<>>,
        ioBinding |-> <<bound>>, engine |-> seen]
  ELSE [status |-> "ok", message |-> "",
        value |-> RunResult(EmptyObject, outputs, 1, outputIndex),
        ioBinding |-> <<bound>>, engine |-> seen]

\* The I/O-binding path.
RunBound(inputNames_cstr, outputNames_cstr, fault) ==
  LET thrown(message, binding) ==
        [status |-> "Error", message |-> message, value |-> <<>>,
         ioBinding |-> binding, engine |-> NoEngineRun]
  IN
  IF Len(preferredOutputLocations_) # Len(outputNames_)
  THEN thrown(MsgPreferredSize, ioBinding_)
  ELSE
    LET ins == BindInputs(ioBinding_[1], inputNames_cstr, 1, fault) IN
    IF ins.threw THEN thrown(EngineMessage(fault.step), <<ins.binding>>)
    ELSE
      LET outs == BindOutputs(ins.binding, outputNames_cstr, 1, fault) IN
      IF outs.threw THEN thrown(EngineMessage(fault.step), <<outs.binding>>)
      ELSE RunBoundEngine(inputNames_cstr, outputNames_cstr, outs.binding, fault)

\* (variant: the inputs are bound before the fetch entries and the run
\* options are read)
RunTry_BindBeforeMarshal(args, fault) ==
  LET inputNames_cstr == NamesPresent(inputNames_, args.feed, 1)
      outputNames_cstr == NamesPresent(outputNames_, args.fetch, 1)
      early == IF Len(preferredOutputLocations_) = 0 THEN ioBinding_
               ELSE <<BindInputs(ioBinding_[1], inputNames_cstr, 1, NoFault).binding>>
      thrown(status, message, binding) ==
        [status |-> status, message |-> message, value |-> <<>>,
         ioBinding |-> binding, engine |-> NoEngineRun]
  IN
  IF MarshalThrows(inputNames_, args.feed)
    THEN thrown("TypeError", MsgBadTensor, ioBinding_)
  ELSE IF MarshalThrows(outputNames_, args.fetch)
    THEN thrown("TypeError", MsgBadTensor, early)
  ELSE IF args.argc > 2 /\ fault.step = "RunOptions"
    THEN thrown("Error", EngineMessage(fault.step), early)
  ELSE IF args.argc > 2 /\ args.options = "invalid"
    THEN thrown("TypeError", MsgBadRunOptions, early)
  ELSE IF Len(preferredOutputLocations_) = 0
    THEN RunDirect(inputNames_cstr, outputNames_cstr, fault)
  ELSE RunBound(inputNames_cstr, outputNames_cstr, fault)

\* The try block of run.
RunTry(args, fault) ==
  LET inputNames_cstr == NamesPresent(inputNames_, args.feed, 1)
      outputNames_cstr == NamesPresent(outputNames_, args.fetch, 1)
      thrown(status, message) ==
        [status |-> status, message |-> message, value |-> <<>>,
         ioBinding |-> ioBinding_, engine |-> NoEngineRun]
  IN
  IF MarshalThrows(inputNames_, args.feed) THEN thrown("TypeError", MsgBadTensor)
  ELSE IF MarshalThrows(outputNames_, args.fetch) THEN thrown("TypeError", MsgBadTensor)
  ELSE IF args.argc > 2 /\ fault.step = "RunOptions"
    THEN thrown("Error", EngineMessage(fault.step))
  ELSE IF args.argc > 2 /\ args.options = "invalid"
    THEN thrown("TypeError", MsgBadRunOptions)
  ELSE IF Len(preferredOutputLocations_) = 0
    THEN RunDirect(inputNames_cstr, outputNames_cstr, fault)
  ELSE RunBound(inputNames_cstr, outputNames_cstr, fault)

\* The two memory infos are created after the argument checks and before
\* the try block: an engine exception there leaves the handler as it is.
RunMemoryInfoFault(fault) ==
  fault.step \in {"MemoryInfo::CreateCpu", "MemoryInfo"}

RunCall(args, fault) ==
  /\ UNCHANGED <<initialized_, disposed_, session_, inputNames_, inputTypes_,
                 outputNames_, outputTypes_, preferredOutputLocations_, failedLoads>>
  /\ IF RunCheck # ""
     THEN /\ result' = Outcome("run", "Error", RunCheck, <<>>)
          /\ engineRun' = NoEngineRun
          /\ released' = <<>>
          /\ UNCHANGED ioBinding_
     ELSE IF RunArgsCheck(args) # ""
     THEN /\ result' = Outcome("run", "TypeError", RunArgsCheck(args), <<>>)
          /\ engineRun' = NoEngineRun
          /\ released' = <<>>
          /\ UNCHANGED ioBinding_
     ELSE IF RunMemoryInfoFault(fault)
     THEN /\ result' = Outcome("run", "uncaught", EngineMessage(fault.step), <<>>)
          /\ engineRun' = NoEngineRun
          /\ released' = <<>>
          /\ UNCHANGED ioBinding_
     ELSE \E end \in {RunTry(args, fault)} :
          /\ result' = Outcome("run", end.status, end.message, end.value)
          /\ engineRun' = end.engine
          /\ released' = <<>>
          /\ ioBinding_' = end.ioBinding

\* As for loadModel: one representative call when the state checks reject.
Run ==
  IF RunCheck # ""
  THEN RunCall(RunCall3(Tensors({"x1"}), Nulls({"y1"}), "absent"), NoFault)
  ELSE \E call \in RunCalls : RunCall(call.args, call.fault)

\* ---------------------------------------------------------- specification
Next == LoadModel \/ GetMetadata \/ Run \/ Dispose \/ EndProfiling

Spec == Init /\ [][Next]_vars


\* ================================================================ claims
Fresh == ~initialized_ /\ ~disposed_
Loaded == initialized_ /\ ~disposed_
Disposed == initialized_ /\ disposed_

GuardedMethods == {"run", "dispose", "endProfiling", "inputMetadata", "outputMetadata"}
AllMethods == GuardedMethods \cup {"loadModel"}

Failed(r) == r.status \in {"Error", "TypeError", "uncaught"}

\* C1: on a Fresh session every call of run, dispose, endProfiling,
\* inputMetadata or outputMetadata fails with "Session is not initialized."
\* and changes no field; only loadModel moves the session out of Fresh.
C1_FreshRejectsAllButLoad ==
  [][/\ (Fresh /\ result'.method \in GuardedMethods) =>
          /\ result'.status = "Error"
          /\ result'.message = MsgNotInitialized
          /\ Fresh'
          /\ UNCHANGED fields
     /\ (Fresh /\ ~Fresh') => result'.method = "loadModel"]_vars

C1_Witness ==
  /\ Fresh
  /\ result.method = "dispose"
  /\ result.message = MsgNotInitialized

\* C2 (as stated): on a Disposed session every method, loadModel included,
\* fails with "Session already disposed."
C2_DisposedMessageForEveryMethod ==
  [][(Disposed /\ result'.method \in AllMethods) =>
        (result'.status = "Error" /\ result'.message = MsgDisposed)]_vars

\* C3: Disposed is terminal: once dispose has succeeded every later call
\* fails, the flags stay (initialized_, disposed_) = (TRUE, TRUE), and neither
\* the native session nor the I/O binding is held again.
C3_DisposedIsTerminal ==
  [][(disposed_ \/ disposed_') =>
        /\ Disposed'
        /\ session_' = <<>>
        /\ ioBinding_' = <<>>
        /\ disposed_ => Failed(result')]_vars

C3_Witness ==
  /\ Disposed
  /\ result.method = "dispose"
  /\ result.status = "Error"

\* C4: on a Loaded session a loadModel call fails with the already-loaded
\* message and changes no field.
C4_SecondLoadRejected ==
  [][(Loaded /\ result'.method = "loadModel") =>
        /\ result'.status = "Error"
        /\ result'.message = MsgAlreadyLoaded
        /\ UNCHANGED fields]_vars

C4_Witness ==
  /\ Loaded
  /\ session_ # <<>>
  /\ result.method = "loadModel"
  /\ result.message = MsgAlreadyLoaded

\* C5: a loadModel call that fails on a Fresh session leaves it Fresh; the
\* call after it is rejected as not initialized if it is one of the guarded
\* methods, and is not rejected as already loaded if it is loadModel.
C5_FailedLoadStaysFresh ==
  [][/\ (Fresh /\ result'.method = "loadModel" /\ Failed(result')) => Fresh'
     /\ (Fresh /\ result.method = "loadModel" /\ Failed(result)) =>
          IF result'.method = "loadModel"
          THEN result'.message # MsgAlreadyLoaded
          ELSE result'.status = "Error" /\ result'.message = MsgNotInitialized]_vars

\* a loadModel call accepted and successful after an earlier one failed late
C5_Witness ==
  /\ failedLoads > 0
  /\ Loaded
  /\ result.method = "loadModel"
  /\ result.status = "ok"

\* C6 (as stated): after a failed loadModel every field equals that of a
\* newly constructed session.
C6_FailedLoadFullyUnwound ==
  (Fresh /\ result.method = "loadModel" /\ Failed(result)) =>
     /\ session_ = <<>>
     /\ inputNames_ = <<>> /\ inputTypes_ = <<>>
     /\ outputNames_ = <<>> /\ outputTypes_ = <<>>
     /\ preferredOutputLocations_ = <<>>
     /\ ioBinding_ = <<>>

\* C7 (as stated): the native session handle is present iff the session is
\* Loaded.
C7_SessionHeldIffLoaded ==
  (session_ # <<>>) <=> Loaded

\* C8 (as stated): after any successful loadModel the metadata arrays have as
\* many entries as the native session has inputs and outputs, and the cached
\* names are unique on each side.
C8_MetadataMatchesSession ==
  (Loaded /\ result.method = "loadModel" /\ result.status = "ok") =>
     /\ Len(MetadataArray(TRUE)) = Len(session_[1].inputs)
     /\ Len(MetadataArray(FALSE)) = Len(session_[1].outputs)
     /\ Cardinality(Range(inputNames_)) = Len(inputNames_)
     /\ Cardinality(Range(outputNames_)) = Len(outputNames_)

\* C9 (as stated): the record a successful run returns has exactly the
\* requested output names as keys, each mapped to the value the engine
\* produced for that output.
C9_ResultKeyedByOutputName ==
  (result.method = "run" /\ result.status = "ok") =>
     /\ DOMAIN result.value = Range(engineRun.requested)
     /\ \A k \in DOMAIN result.value : result.value[k].data = k

\* The preferred location the table holds for the output named `name`.
TableLocation(name) ==
  preferredOutputLocations_[CHOOSE i \in 1..Len(outputNames_) :
                              /\ outputNames_[i] = name
                              /\ \A j \in 1..(i - 1) : outputNames_[j] # name]

\* C10 (as stated): on the I/O-binding path every requested output is bound
\* to the memory info of its own table entry.
C10_BoundPerTableEntry ==
  (engineRun.called /\ Len(preferredOutputLocations_) > 0) =>
     \A j \in 1..Len(engineRun.outputs) :
        engineRun.outputs[j].name \in Range(engineRun.requested) =>
           engineRun.outputs[j].memory =
              (IF TableLocation(engineRun.outputs[j].name) = "GPU_BUFFER"
               THEN gpuBufferMemoryInfo ELSE cpuMemoryInfo)


\* C11 (as stated): the inputs the engine's Run is given are exactly the
\* model inputs present in the feed of this call, on either path.
C11_EngineSeesCurrentFeedOnly ==
  engineRun.called => Range(engineRun.inputs) = Range(engineRun.supplied)

MetadataMethods == {"inputMetadata", "outputMetadata"}

\* C12: while the session is Loaded no call changes the cached names and
\* type infos; a metadata read changes no field and returns the array built
\* from the cached names and type infos, so two reads of the same accessor
\* that follow each other return equal arrays.
C12_MetadataImmutableAndPure ==
  [][/\ Loaded => UNCHANGED <<inputNames_, inputTypes_, outputNames_, outputTypes_>>
     /\ (Loaded /\ result'.method \in MetadataMethods) =>
          /\ UNCHANGED fields
          /\ result'.status = "ok"
          /\ result'.value = MetadataArray(result'.method = "inputMetadata")
     /\ (Loaded /\ result.method \in MetadataMethods /\ result.status = "ok"
           /\ result'.method = result.method) =>
          result'.value = result.value]_vars

C12_Witness ==
  /\ Loaded
  /\ result.method = "inputMetadata"
  /\ result.status = "ok"
  /\ Len(result.value) > 1
  /\ ioBinding_ # <<>>
  /\ ioBinding_[1].outputs # <<>>

\* C13 (as stated): in every reachable state the I/O binding is held iff the
\* preferred-output-location sequence is non-empty.
C13_BindingIffPreferred ==
  (ioBinding_ # <<>>) <=> (Len(preferredOutputLocations_) > 0)

\* C14 (as stated): in every reachable state the cached type infos are as
\* many as the cached names, on each side.
C14_TypesParallelToNames ==
  /\ Len(inputTypes_) = Len(inputNames_)
  /\ Len(outputTypes_) = Len(outputNames_)

\* C15 (as stated): when the engine throws in loadModel, run or endProfiling
\* the method ends by raising a host error; no engine exception leaves the
\* method uncaught.
C15_EngineErrorsBecomeHostErrors ==
  result.method \in {"loadModel", "run", "endProfiling"} =>
     result.status \in {"ok", "Error", "TypeError"}

\* C16: a successful dispose of a Loaded session releases the I/O binding,
\* if one is held, before the native session, marks the session disposed
\* last, and leaves neither handle held.
C16_DisposeReleaseOrder ==
  [][(Loaded /\ result'.method = "dispose") =>
        /\ result'.status = "ok"
        /\ released' = (IF ioBinding_ # <<>> THEN <<"ioBinding_">> ELSE <<>>)
                       \o <<"session_", "disposed_">>
        /\ Disposed'
        /\ session_' = <<>>
        /\ ioBinding_' = <<>>]_vars

C16_Witness ==
  /\ Disposed
  /\ result.method = "dispose"
  /\ result.status = "ok"
  /\ released = <<"ioBinding_", "session_", "disposed_">>

\* seq picks entries of decl at strictly increasing positions.
RECURSIVE InDeclarationOrder(_, _)
InDeclarationOrder(seq, decl) ==
  IF seq = <<>> THEN TRUE
  ELSE IF decl = <<>> THEN FALSE
  ELSE IF Head(seq) = Head(decl).name THEN InDeclarationOrder(Tail(seq), Tail(decl))
  ELSE InDeclarationOrder(seq, Tail(decl))

\* C17 (as stated): the input names and the output names run hands to the
\* engine follow the declaration order of the session's model and hold no
\* name that is not an input (output) of that model.
C17_HandedInDeclarationOrder ==
  engineRun.called =>
     /\ InDeclarationOrder(engineRun.supplied, session_[1].inputs)
     /\ InDeclarationOrder(engineRun.requested, session_[1].outputs)

\* C18 (as stated): on the I/O-binding path a run whose engine call succeeds
\* retrieves as many output values as the call requested, so it never fails
\* with "Output count mismatch.".
C18_NoOutputCountMismatch ==
  (result.method = "run" /\ engineRun.called /\ engineRun.ok) =>
     /\ Len(engineRun.outputs) = Len(engineRun.requested)
     /\ result.message # MsgOutputCount

\* C19: disposed_ implies initialized_; loadModel is never rejected by its
\* disposed check; and a call of run or endProfiling that reached the engine
\* found the native session held.
C19_FlagPairs ==
  /\ disposed_ => initialized_
  /\ result.method = "loadModel" => result.message # MsgDisposed
  /\ Loaded => session_ # <<>>
  /\ (engineRun.called \/ (result.method = "endProfiling"
                             /\ result.status \in {"ok", "uncaught"}))
       => session_ # <<>>

C19_Witness ==
  /\ Disposed
  /\ result.method = "loadModel"
  /\ result.message = MsgAlreadyLoaded

\* C20: a run that fails while marshalling a feed or fetch entry or parsing
\* the run options has not called the engine and has changed no field (the
\* I/O binding included), and the session is still Loaded.
C20_MarshalFailureBeforeBinding ==
  [][(Loaded /\ result'.method = "run"
        /\ result'.message \in {MsgBadTensor, MsgBadRunOptions}) =>
        /\ ~engineRun'.called
        /\ UNCHANGED fields
        /\ Loaded']_vars

C20_Witness ==
  /\ Loaded
  /\ result.method = "run"
  /\ result.message = MsgBadTensor
  /\ ioBinding_ # <<>>
  /\ ioBinding_[1].outputs # <<>>

====
